---------------------------- MODULE Spec2Model ----------------------------
(***************************************************************************)
(* Model of stand_image_processing.py: the classic (non deep-learning)    *)
(* inspection of a cutting insert.  One inspection cycle of the main loop *)
(* runs searchingBox over two regions, findArcPoint over the two fitted   *)
(* lines (intersection, four candidate centres, rotation, polarTransform, *)
(* radial edge scan, ExamineArc statistics) and draws OK / N_OK.          *)
(*                                                                         *)
(* Images are numpy arrays in the source.  Here an image is a record      *)
(* [h, w, nz]: its shape and the function from the coordinates <<row,col>>*)
(* of its nonzero pixels to their intensity (every other pixel is 0).     *)
(* Indices are 0-based as in the source.                                  *)
(*                                                                         *)
(* Floating point values are modelled in fixed point: a direction vector  *)
(* is carried in units of 1/VUnit, coordinates in whole pixels, sines and *)
(* cosines in 1/1000.                                                     *)
(***************************************************************************)
EXTENDS Integers, Sequences, FiniteSets, TLC

VARIABLES
    pc,        \* position of the program in the cycle
    img,       \* global working frame `img` (drawn on by the visualisation)
    img2,      \* backup of the clear frame, main loop line 383
    line1,     \* result of searchingBox over the first region
    line2,     \* result of searchingBox over the second region
    arc,       \* locals of findArcPoint: xs, ys, C, properArc, xc, yc, ang
    roi,       \* the image findArcPoint / polarTransform is working on
    polarArgs, \* arguments r and theta_inc of the polarTransform call
    pts_y,     \* radial positions handed to ExamineArc
    stat,      \* s, m, o of findArcPoint lines 243-245
    verdict,   \* text drawn by findArcPoint: "OK", "N_OK" or "none"
    ret,       \* value returned by findArcPoint: "0", "-1", or "none"
    fault,     \* uncaught exception that ended the process, or "none"
    scan       \* arguments, intermediates and result of findLinesPoints

vars == <<pc, img, img2, line1, line2, arc, roi, polarArgs, pts_y, stat,
          verdict, ret, fault, scan>>

-----------------------------------------------------------------------------
(* Bounds of the model *)

\* shape of the edge maps enumerated for findLinesPoints
ScanRowsMax == 2
ScanColsMax == 3
\* longest radial-position sequence enumerated for ExamineArc
MaxPts == 3
\* shape of the frames of the main loop and their number of bright pixels
FrameH == 4
FrameW == 4
MaxBright == 2
\* polarTransform: largest side of the sub-image, largest r[0], largest r[1]-r[0]
PolarRoiMax == 5
RMinMax == 2
RSpanMax == 2
\* findArcPoint: largest tilt, in 1/VUnit, of the near-axis lines enumerated
TiltMax == 1

-----------------------------------------------------------------------------
(* numpy / OpenCV array primitives *)

Min(S) == CHOOSE x \in S : \A y \in S : x <= y
Abs(x) == IF x < 0 THEN -x ELSE x

EmptyNz == [p \in {} |-> 0]

\* np.zeros((h, w))
Zeros(h, w) == [h |-> h, w |-> w, nz |-> EmptyNz]

\* a[x, y] for an index inside the array
Item(im, x, y) == IF <<x, y>> \in DOMAIN im.nz THEN im.nz[<<x, y>>] ELSE 0

InBounds(im, x, y) == x >= 0 /\ x < im.h /\ y >= 0 /\ y < im.w

\* np.flatnonzero(a[r]): the columns of the nonzero pixels of row r
FlatNonZero(im, r) == {p[2] : p \in {q \in DOMAIN im.nz : q[1] = r}}

\* cv.flip(a, 1): mirror around the vertical axis
Flip1(im) ==
    [h |-> im.h, w |-> im.w,
     nz |-> [p \in {<<q[1], im.w - 1 - q[2]>> : q \in DOMAIN im.nz}
             |-> im.nz[<<p[1], im.w - 1 - p[2]>>]]]

\* cv.rotate(a, cv.ROTATE_90_CLOCKWISE): dst[c, h-1-r] = src[r, c]
Rotate90CW(im) ==
    [h |-> im.w, w |-> im.h,
     nz |-> [p \in {<<q[2], im.h - 1 - q[1]>> : q \in DOMAIN im.nz}
             |-> im.nz[<<im.h - 1 - p[2], p[1]>>]]]

\* cv.rotate(a, cv.ROTATE_90_COUNTERCLOCKWISE): dst[w-1-c, r] = src[r, c]
Rotate90CCW(im) ==
    [h |-> im.w, w |-> im.h,
     nz |-> [p \in {<<im.w - 1 - q[2], q[1]>> : q \in DOMAIN im.nz}
             |-> im.nz[<<p[2], im.w - 1 - p[1]>>]]]

\* the points of S, each <<x, y>> = <<col, row>>, in row-major order
RECURSIVE RowMajor(_)
RowMajor(S) ==
    IF S = {} THEN <<>>
    ELSE LET first == CHOOSE p \in S :
                        \A q \in S : p[2] < q[2] \/ (p[2] = q[2] /\ p[1] <= q[1])
         IN <<first>> \o RowMajor(S \ {first})

\* cv.findNonZero(a): None (modelled by the empty sequence, which
\* findNonZero never returns) or the <<x, y>> of the nonzero pixels
NoPoints == <<>>
FindNonZero(im) == RowMajor({<<p[2], p[1]>> : p \in DOMAIN im.nz})

-----------------------------------------------------------------------------
(* findLinesPoints, lines 85-110 (after the opening and Canny) *)

Directions == {<<1, 0>>, <<-1, 0>>, <<0, 1>>, <<0, -1>>}

\* lines 86-89: rotate the image to ensure the proper searching direction
Normalise(edges, direction) ==
    LET a == IF direction[1] = -1 THEN Flip1(edges) ELSE edges
        b == IF direction[2] # 0 THEN Rotate90CW(a) ELSE a
    IN IF direction[2] = -1 THEN Flip1(b) ELSE b

\* lines 92-97: "min non zero val in each row"; any(non_zero_values) is
\* Python's any over the column INDICES returned by flatnonzero
ScanRows(norm) ==
    LET hit(r) == LET nzv == FlatNonZero(norm, r)
                  IN IF \E c \in nzv : c # 0 THEN {<<r, Min(nzv)>>} ELSE {}
    IN [h |-> norm.h, w |-> norm.w,
        nz |-> [p \in UNION {hit(r) : r \in 0 .. norm.h - 1} |-> 255]]

\* a restore that forgets to undo the horizontal flip of direction (-1, 0)
RestoreNoFlip(hits, direction) ==
    LET b == IF direction[2] = -1 THEN Flip1(hits) ELSE hits
    IN IF direction[2] # 0 THEN Rotate90CCW(b) ELSE hits

\* lines 100-103: rotate the drawing back to the base coordinates
Restore(hits, direction) ==
    LET a == IF direction[1] = -1 THEN Flip1(hits) ELSE hits
        b == IF direction[2] = -1 THEN Flip1(a) ELSE a
    IN IF direction[2] # 0 THEN Rotate90CCW(b) ELSE a

\* lines 85-110 as a whole: every intermediate and the returned pts
FindLinesPointsRun(edges, direction) ==
    LET norm    == Normalise(edges, direction)
        hits    == ScanRows(norm)
        drawing == Restore(hits, direction)
    IN [edges |-> edges, direction |-> direction, norm |-> norm,
        hits |-> hits, drawing |-> drawing, pts |-> FindNonZero(drawing)]

ScanIdle == [edges |-> Zeros(0, 0), direction |-> <<0, 0>>, norm |-> Zeros(0, 0),
             hits |-> Zeros(0, 0), drawing |-> Zeros(0, 0), pts |-> NoPoints]

-----------------------------------------------------------------------------
(* ExamineArc, lines 287-312, and the verdict of findArcPoint *)

MAX_DIM == 137
MIN_DIM == 128
\* STD_ERROR = 1.5 px, in 1/100 px
STD_ERROR_x100 == 150

RECURSIVE SumSeq(_)
SumSeq(s) == IF s = <<>> THEN 0 ELSE Head(s) + SumSeq(Tail(s))

\* floor of the square root, by bisection
RECURSIVE SqrtIn(_, _, _)
SqrtIn(n, lo, hi) ==
    IF lo >= hi THEN lo
    ELSE LET mid == (lo + hi + 1) \div 2
         IN IF mid * mid <= n THEN SqrtIn(n, mid, hi) ELSE SqrtIn(n, lo, mid - 1)
ISqrt(n) == SqrtIn(n, 0, 46340)

\* list.sort(): insertion of the head into the sorted tail
RECURSIVE ListSort(_)
ListSort(s) ==
    IF s = <<>> THEN <<>>
    ELSE LET t == ListSort(Tail(s))
             lo == SelectSeq(t, LAMBDA v : v < Head(s))
             hi == SelectSeq(t, LAMBDA v : v >= Head(s))
         IN lo \o <<Head(s)>> \o hi

\* srednia, lines 292-294: suma / float(len(pts)), kept as the fraction num/den
srednia(pts) == [num |-> SumSeq(pts), den |-> Len(pts)]

\* mediana, lines 296-302, on the list it has just sorted in place
mediana(sorted) ==
    LET n == Len(sorted)
        half == n \div 2
    IN IF n % 2 = 0
       THEN [num |-> sorted[half] + sorted[half + 1], den |-> 2]
       ELSE [num |-> sorted[half + 1], den |-> 1]

\* wariancja, lines 304-308: sum of (ocena - srednia)**2 over len(pts)
wariancja(pts, sr) ==
    [num |-> SumSeq([i \in 1 .. Len(pts) |->
                        (pts[i] * sr.den - sr.num) * (pts[i] * sr.den - sr.num)]),
     den |-> sr.den * sr.den * Len(pts)]

\* odchylenie, lines 310-312: math.sqrt(w), floored to 1/100 px
odchylenie(pts, sr) ==
    LET w == wariancja(pts, sr) IN ISqrt((w.num * 10000) \div w.den)

\* a verdict whose bounds on the mean are inclusive
VerdictInclusive(s, o) ==
    IF (s.num <= MAX_DIM * s.den /\ s.num >= MIN_DIM * s.den) /\ o < STD_ERROR_x100
    THEN "OK" ELSE "N_OK"

\* line 247: if(s < MAX_DIM and s > MIN_DIM) and o < STD_ERROR
Verdict(s, o) ==
    IF (s.num < MAX_DIM * s.den /\ s.num > MIN_DIM * s.den) /\ o < STD_ERROR_x100
    THEN "OK" ELSE "N_OK"

StatUnset == [s |-> [num |-> 0, den |-> 1], m |-> [num |-> 0, den |-> 1], o |-> 0]

-----------------------------------------------------------------------------
(* findArcPoint, lines 162-211: intersection, candidate centres, rotation *)

\* PX2MM = 580/4
PX2MM == 145
\* line 189: min_dist = 9999
min_dist == 9999
\* line 199: inc = 100
inc == 100

\* resolution of a direction vector: vx, vy are carried as VUnit * value
VUnit == 10 * 10

\* searchingBox's "return -1,-1,-1,-1": <<vx, vy, x, y>>
NoLine == <<-VUnit, -VUnit, -1, -1>>
\* line1 / line2 before the cycle has assigned them
LineUnset == <<0, 0, 0, 0>>

\* a / b rounded down
FDiv(a, b) == IF b < 0 THEN (-a) \div (-b) ELSE a \div b

\* determinant of the system of line 165 (up to sign and scale): zero
\* exactly when np.linalg.inv raises LinAlgError("Singular matrix")
Det(l1, l2) == l1[1] * l2[2] - l1[2] * l2[1]

\* lines 165-168: xs, ys = R[2:], the crossing point of the two lines
Crossing(l1, l2) ==
    LET n == (l2[3] - l1[3]) * l2[2] - (l2[4] - l1[4]) * l2[1]
    IN <<l1[3] + FDiv(l1[1] * n, Det(l1, l2)), l1[4] + FDiv(l1[2] * n, Det(l1, l2))>>

\* lines 170-171: <<vx, vy>>
SumVector(l1, l2) ==
    IF l2[2] < 0 THEN <<Abs(l1[2] + l2[2]), Abs(l1[1] + l2[1])>>
    ELSE <<Abs(l1[1] + l2[1]), Abs(l1[2] + l2[2])>>

\* lines 173-174: k * c for a component c of <<vx, vy>>, k = (PX2MM*4)/l
Scaled(c, v) ==
    FDiv(PX2MM * 4 * c * 100, ISqrt((v[1] * v[1] + v[2] * v[2]) * 10000))

\* lines 180-186: the four possible arc centres C
Candidates(xs, ys, v) ==
    LET kx == Scaled(v[1], v)
        ky == Scaled(v[2], v)
    IN << <<xs + kx, ys + ky>>, <<xs - kx, ys + ky>>,
          <<xs - kx, ys - ky>>, <<xs + kx, ys - ky>> >>

\* line 192: dist, carried as (2*dist)^2 for the centre (w/2, h/2) of a frame
\* of shape h x w; any dist >= min_dist is carried as one value above
\* every min_dist the loop can hold
Dist(c, h, w) ==
    LET dx == 2 * c[1] - w
        dy == 2 * c[2] - h
    IN IF Abs(dx) >= 2 * min_dist \/ Abs(dy) >= 2 * min_dist
       THEN 8 * min_dist * min_dist
       ELSE dx * dx + dy * dy

\* lines 189-195: the loop from candidate i on; acc = [min, properArc],
\* properArc = -1 while the name is unbound
RECURSIVE SelectLoop(_, _, _, _, _)
SelectLoop(C, h, w, i, acc) ==
    IF i >= Len(C) THEN acc
    ELSE SelectLoop(C, h, w, i + 1,
                    IF Dist(C[i + 1], h, w) < acc.min
                    THEN [min |-> Dist(C[i + 1], h, w), properArc |-> i]
                    ELSE acc)

ProperArc(C, h, w) ==
    SelectLoop(C, h, w, 0, [min |-> 4 * min_dist * min_dist, properArc |-> -1]).properArc

\* a mapping whose second branch repeats the angle of the first
RotationAngleRepeated(xc, yc, xs, ys) ==
    IF xc > xs /\ yc < ys THEN 90
    ELSE IF xc > xs /\ yc > ys THEN 90
    ELSE IF xc < xs /\ yc > ys THEN 270
    ELSE 0

\* lines 207-210: ang
RotationAngle(xc, yc, xs, ys) ==
    IF xc > xs /\ yc < ys THEN 90
    ELSE IF xc > xs /\ yc > ys THEN 180
    ELSE IF xc < xs /\ yc > ys THEN 270
    ELSE 0

\* lines 200-203: <<ry0, ryk, rx0, rxk>>
RoiBounds(xc, yc, xs, ys) ==
    << IF yc < ys THEN yc ELSE ys - inc,
       IF yc > ys THEN yc ELSE ys + inc,
       IF xc < xs THEN xc ELSE xs - inc,
       IF xc > xs THEN xc ELSE xs + inc >>

\* Python's slice index i on an axis of length n
SliceIdx(i, n) ==
    IF i < 0 THEN (IF i + n < 0 THEN 0 ELSE i + n) ELSE (IF i > n THEN n ELSE i)

\* a[r0:r1, c0:c1]
Crop(im, r0, r1, c0, c1) ==
    LET a == SliceIdx(r0, im.h)
        b == SliceIdx(r1, im.h)
        c == SliceIdx(c0, im.w)
        d == SliceIdx(c1, im.w)
        keep == {p \in DOMAIN im.nz : a <= p[1] /\ p[1] < b /\ c <= p[2] /\ p[2] < d}
    IN [h |-> IF b > a THEN b - a ELSE 0,
        w |-> IF d > c THEN d - c ELSE 0,
        nz |-> [p \in {<<q[1] - a, q[2] - c>> : q \in keep}
                |-> im.nz[<<p[1] + a, p[2] + c>>]]]

\* line 211: ndimage.rotate(roi, ang) for ang a multiple of 90, taken as the
\* exact counter-clockwise quarter turns (no interpolation error)
NdRotate(im, ang) ==
    IF ang = 90 THEN Rotate90CCW(im)
    ELSE IF ang = 180 THEN Rotate90CCW(Rotate90CCW(im))
    ELSE IF ang = 270 THEN Rotate90CW(im)
    ELSE im

ArcUnset == [xs |-> 0, ys |-> 0, C |-> <<>>, properArc |-> -1,
             xc |-> 0, yc |-> 0, ang |-> 0]

-----------------------------------------------------------------------------
(* polarTransform, lines 255-284 *)

\* line 223: theta = 90
THETA == 90

\* floor(1000 * math.sin(math.radians(a))) for the float the source computes
SinMilli(a) ==
    CASE a = 0 -> 0 [] a = 15 -> 258 [] a = 30 -> 499 [] a = 45 -> 707
      [] a = 60 -> 866 [] a = 75 -> 965 [] OTHER -> 1000

\* floor(1000 * math.cos(math.radians(a)))
CosMilli(a) ==
    CASE a = 0 -> 1000 [] a = 15 -> 965 [] a = 30 -> 866 [] a = 45 -> 707
      [] a = 60 -> 500 [] a = 75 -> 258 [] OTHER -> 0

\* int(t * R) for t >= 0 given in 1/1000
IntMul(milli, R) == (milli * R) \div 1000

\* the bins int(alpha/theta_inc) of theta_range = np.arange(0, theta, theta_inc)
PolarBins(theta, theta_inc) == 0 .. ((theta - 1) \div theta_inc)

\* lines 266-267 and 272-273: the <<x, y>> read for radius R at angle alpha
SampleAt(r, R, alpha) ==
    << IntMul(SinMilli(alpha), R) + IntMul(SinMilli(alpha), r[1]),
       IntMul(CosMilli(alpha), R) + IntMul(CosMilli(alpha), r[1]) >>

\* a bounds check that looks at the row index only
PolarRaisesRowOnly(im, r, theta, theta_inc) ==
    \/ im.h = 0
    \/ im.w = 0
    \/ \E b \in PolarBins(theta, theta_inc), R \in r[1] .. r[2] - 1 :
          SampleAt(r, R, b * theta_inc)[1] >= im.h

\* whether polarTransform raises: cv.cvtColor (line 269) on an empty array,
\* or roi.item(x, y) (line 276) on an index outside the array
PolarRaises(im, r, theta, theta_inc) ==
    \/ im.h = 0
    \/ im.w = 0
    \/ \E b \in PolarBins(theta, theta_inc), R \in r[1] .. r[2] - 1 :
          ~InBounds(im, SampleAt(r, R, b * theta_inc)[1], SampleAt(r, R, b * theta_inc)[2])

\* lines 262-284: roi2 when nothing raises
PolarRaster(im, r, theta, theta_inc) ==
    LET val(i, b) == LET c == SampleAt(r, i + r[1], b * theta_inc)
                     IN Item(im, c[1], c[2])
        cells == {q \in (0 .. r[2] - r[1] - 1) \X PolarBins(theta, theta_inc) :
                     val(q[1], q[2]) # 0}
    IN [h |-> r[2] - r[1], w |-> (theta \div theta_inc) + 1,
        nz |-> [p \in cells |-> val(p[1], p[2])]]

-----------------------------------------------------------------------------
(* searchingBox, lines 112-152, and the filters it shares with findArcPoint *)

\* lines 124 and 231: cv.threshold(roi, 150, 255, cv.THRESH_TOZERO)
ThresholdLevel == 150
Threshold(im) ==
    [h |-> im.h, w |-> im.w,
     nz |-> [p \in {q \in DOMAIN im.nz : im.nz[q] > ThresholdLevel} |-> im.nz[p]]]

\* linesFiltration (53-70), then the opening and Canny of findLinesPoints
\* (79-81): OpenCV filters, taken as marking every pixel the threshold kept
CvEdges(im) == [h |-> im.h, w |-> im.w, nz |-> [p \in DOMAIN im.nz |-> 255]]

\* findLinesPoints, lines 72-110
FindLinesPoints(im, direction) == FindLinesPointsRun(CvEdges(im), direction).pts

\* cv.fitLine(vector, cv.DIST_HUBER, ...), line 136: the centroid of the
\* points and their principal axis, taken to the nearest multiple of 45 degrees
FitLine(pts) ==
    LET n  == Len(pts)
        sx == SumSeq([i \in 1 .. n |-> pts[i][1]])
        sy == SumSeq([i \in 1 .. n |-> pts[i][2]])
        dx(i) == n * pts[i][1] - sx
        dy(i) == n * pts[i][2] - sy
        a  == SumSeq([i \in 1 .. n |-> dx(i) * dx(i) - dy(i) * dy(i)])
        b  == 2 * SumSeq([i \in 1 .. n |-> dx(i) * dy(i)])
        diag == (VUnit * 7071) \div 10000
        v  == IF Abs(b) <= Abs(a)
              THEN (IF a >= 0 THEN <<VUnit, 0>> ELSE <<0, VUnit>>)
              ELSE (IF b > 0 THEN <<diag, diag>> ELSE <<diag, -diag>>)
    IN <<v[1], v[2], sx \div n, sy \div n>>

\* im with the pixels of S set to 255
Paint(im, S) ==
    LET T == {p \in S : InBounds(im, p[1], p[2])}
    IN [h |-> im.h, w |-> im.w,
        nz |-> [p \in DOMAIN im.nz \cup T |-> IF p \in T THEN 255 ELSE im.nz[p]]]

\* cv.line(img, p1, p2, (255,255,255), 3, ...), lines 144-147: the pixels
\* within one pixel of the line through <<x, y>> along <<vx, vy>>
LinePixels(im, line) ==
    {p \in (0 .. im.h - 1) \X (0 .. im.w - 1) :
        Abs(line[1] * (p[1] - line[4]) - line[2] * (p[2] - line[3])) <= VUnit}

\* cv.rectangle(img, (x, y, w, h), (255,255,255), 2), line 148: the outline
RectPixels(points) ==
    {p \in (points[2] .. points[2] + points[4] - 1)
           \X (points[1] .. points[1] + points[3] - 1) :
        \/ p[1] \in {points[2], points[2] + points[4] - 1}
        \/ p[2] \in {points[1], points[1] + points[3] - 1}}

\* searchingBox(image, points, direction) called with image = the global img:
\* the returned line and the global img it leaves behind
searchingBox(image, points, direction) ==
    LET box == Crop(image, points[2], points[2] + points[4],
                    points[1], points[1] + points[3])
        pts == FindLinesPoints(Threshold(box), direction)
        fit == FitLine(pts)
        line == <<fit[1], fit[2], fit[3] + points[1], fit[4] + points[2]>>
    IN IF pts = NoPoints
       THEN [line |-> NoLine, img |-> image]
       ELSE [line |-> line,
             img |-> Paint(Paint(image, LinePixels(image, line)), RectPixels(points))]

-----------------------------------------------------------------------------
(* The program: one action per step of the main loop and of findArcPoint *)

\* the regions and directions of lines 391 and 394, (x, y, w, h), laid out in
\* the model's frame as in the source: upper right, scanned along (0,1), and
\* lower left, scanned along (1,0)
Roi1 == <<FrameW \div 2, 0, FrameW - FrameW \div 2, FrameH \div 2>>
Roi2 == <<0, FrameH \div 2, FrameW \div 2, FrameH - FrameH \div 2>>
Direction1 == <<0, 1>>
Direction2 == <<1, 0>>

\* r and theta_inc of the call of line 223, at the scale of the model's frame
MainPolarArgs == [r |-> <<1, 3>>, theta_inc |-> 45]

NoFrame == Zeros(0, 0)

\* the frames the camera may deliver: at most MaxBright lit pixels
Intensities == {120, 255}
RECURSIVE LitSets(_)
LitSets(k) ==
    IF k = 0 THEN {{}}
    ELSE LitSets(k - 1)
         \cup {S \cup {p} : S \in LitSets(k - 1),
                            p \in (0 .. FrameH - 1) \X (0 .. FrameW - 1)}
Frames ==
    {[h |-> FrameH, w |-> FrameW, nz |-> [p \in S |-> v]] :
        S \in LitSets(MaxBright), v \in Intensities}

cycleVars == <<line1, line2, arc, roi, pts_y, stat, verdict, ret>>

\* lines 354-388: a frame is grabbed, SPACE is pressed, the frame is converted
\* to grayscale and backed up
Grab ==
    /\ pc = "grab"
    /\ \E f \in Frames : img' = f /\ img2' = f
    /\ pc' = "line1"
    /\ UNCHANGED <<cycleVars, polarArgs, fault, scan>>

\* lines 371-374: ESC
Quit ==
    /\ pc = "grab"
    /\ pc' = "stopped"
    /\ UNCHANGED <<img, img2, cycleVars, polarArgs, fault, scan>>

\* line 391: line1 = searchingBox(img, (1000,625,800,200), (0,1))
SearchLine1 ==
    /\ pc = "line1"
    /\ line1' = searchingBox(img, Roi1, Direction1).line
    /\ img' = searchingBox(img, Roi1, Direction1).img
    /\ pc' = "line2"
    /\ UNCHANGED <<img2, line2, arc, roi, polarArgs, pts_y, stat, verdict, ret,
                   fault, scan>>

\* line 394: line2 = searchingBox(img, (325,1075,300,300), (1,0))
SearchLine2 ==
    /\ pc = "line2"
    /\ line2' = searchingBox(img, Roi2, Direction2).line
    /\ img' = searchingBox(img, Roi2, Direction2).img
    /\ pc' = "solve"
    /\ UNCHANGED <<img2, line1, arc, roi, polarArgs, pts_y, stat, verdict, ret,
                   fault, scan>>

\* line 400 and findArcPoint lines 162-177: np.linalg.inv(A).dot(B); a
\* singular A raises LinAlgError, which nothing catches
SolveIntersection ==
    /\ pc = "solve"
    /\ IF Det(line1, line2) = 0
       THEN /\ fault' = "LinAlgError"
            /\ pc' = "crashed"
            /\ arc' = arc
       ELSE /\ arc' = [ArcUnset EXCEPT !.xs = Crossing(line1, line2)[1],
                                       !.ys = Crossing(line1, line2)[2]]
            /\ pc' = "select"
            /\ fault' = fault
    /\ UNCHANGED <<img, img2, line1, line2, roi, polarArgs, pts_y, stat, verdict,
                   ret, scan>>

\* lines 179-196: the four candidates and the one closest to the centre of
\* the image; xc,yc = C[properArc] raises UnboundLocalError when the loop
\* never assigned properArc
SelectCentre ==
    /\ pc = "select"
    /\ LET C  == Candidates(arc.xs, arc.ys, SumVector(line1, line2))
           pa == ProperArc(C, img.h, img.w)
       IN IF pa = -1
          THEN /\ arc' = [arc EXCEPT !.C = C]
               /\ fault' = "UnboundLocalError"
               /\ pc' = "crashed"
          ELSE /\ arc' = [arc EXCEPT !.C = C, !.properArc = pa,
                                     !.xc = C[pa + 1][1], !.yc = C[pa + 1][2]]
               /\ fault' = fault
               /\ pc' = "extract"
    /\ UNCHANGED <<img, img2, line1, line2, roi, polarArgs, pts_y, stat, verdict,
                   ret, scan>>

\* lines 198-219: the region between the centre and the crossing point, cut
\* out of the clear frame (image = img2) and rotated by ang
ExtractRoi ==
    /\ pc = "extract"
    /\ LET b == RoiBounds(arc.xc, arc.yc, arc.xs, arc.ys)
           ang == RotationAngle(arc.xc, arc.yc, arc.xs, arc.ys)
       IN /\ roi' = NdRotate(Crop(img2, b[1], b[2], b[3], b[4]), ang)
          /\ arc' = [arc EXCEPT !.ang = ang]
    /\ pc' = "polar"
    /\ UNCHANGED <<img, img2, line1, line2, polarArgs, pts_y, stat, verdict, ret,
                   fault, scan>>

\* lines 221-228: try: roi = polarTransform(...) except: return -1
Polar ==
    /\ pc = "polar"
    /\ IF PolarRaises(roi, polarArgs.r, THETA, polarArgs.theta_inc)
       THEN /\ ret' = "-1"
            /\ pc' = "deepL"
            /\ roi' = roi
       ELSE /\ roi' = PolarRaster(roi, polarArgs.r, THETA, polarArgs.theta_inc)
            /\ pc' = "edge"
            /\ ret' = ret
    /\ UNCHANGED <<img, img2, line1, line2, arc, polarArgs, pts_y, stat, verdict,
                   fault, scan>>

\* lines 230-240: the edge of the transformed arc; pts is None returns -1
FindArcEdge ==
    /\ pc = "edge"
    /\ LET pts == FindLinesPoints(Threshold(roi), <<0, 1>>)
       IN IF pts = NoPoints
          THEN /\ ret' = "-1"
               /\ pc' = "deepL"
               /\ pts_y' = pts_y
          ELSE /\ pts_y' = [i \in 1 .. Len(pts) |-> pts[i][2]]
               /\ pc' = "classify"
               /\ ret' = ret
    /\ UNCHANGED <<img, img2, line1, line2, arc, roi, polarArgs, stat, verdict,
                   fault, scan>>

\* lines 241-253: srednia, mediana (which sorts pts_y), odchylenie, the text
\* OK / N_OK, return 0
Classify ==
    /\ pc = "classify"
    /\ pts_y' = ListSort(pts_y)
    /\ stat' = [s |-> srednia(pts_y), m |-> mediana(ListSort(pts_y)),
                o |-> odchylenie(ListSort(pts_y), srednia(pts_y))]
    /\ verdict' = Verdict(srednia(pts_y), odchylenie(ListSort(pts_y), srednia(pts_y)))
    /\ ret' = "0"
    /\ pc' = "deepL"
    /\ UNCHANGED <<img, img2, line1, line2, arc, roi, polarArgs, fault, scan>>

\* lines 401-411, back to line 354: the rest of the cycle.  Everything the
\* cycle computed is dead by now (the next cycle assigns img, img2, line1 and
\* line2 before reading them) and is put back to its initial value.
DeepL ==
    /\ pc = "deepL"
    /\ pc' = "grab"
    /\ img' = NoFrame
    /\ img2' = NoFrame
    /\ line1' = LineUnset
    /\ line2' = LineUnset
    /\ arc' = ArcUnset
    /\ roi' = NoFrame
    /\ pts_y' = <<>>
    /\ stat' = StatUnset
    /\ verdict' = "none"
    /\ ret' = "none"
    /\ UNCHANGED <<polarArgs, fault, scan>>

\* findLinesPoints lines 85-110 on the edge map scan.edges
FindLinesPointsStep ==
    /\ pc = "findLinesPoints"
    /\ scan' = FindLinesPointsRun(scan.edges, scan.direction)
    /\ pc' = "scanned"
    /\ UNCHANGED <<img, img2, cycleVars, polarArgs, fault>>

-----------------------------------------------------------------------------
(* Specifications *)

IdleFrames == img = NoFrame /\ img2 = NoFrame
IdleLines == line1 = LineUnset /\ line2 = LineUnset
IdleArc == arc = ArcUnset /\ roi = NoFrame
IdleStats == pts_y = <<>> /\ stat = StatUnset /\ verdict = "none" /\ ret = "none"
IdleRest == fault = "none" /\ scan = ScanIdle

\* the main loop, from the first frame on
Init ==
    /\ pc = "grab"
    /\ polarArgs = MainPolarArgs
    /\ IdleFrames /\ IdleLines /\ IdleArc /\ IdleStats /\ IdleRest

Next ==
    \/ Grab
    \/ Quit
    \/ SearchLine1
    \/ SearchLine2
    \/ SolveIntersection
    \/ SelectCentre
    \/ ExtractRoi
    \/ Polar
    \/ FindArcEdge
    \/ Classify
    \/ DeepL

Spec == Init /\ [][Next]_vars

\* findLinesPoints over every binary edge map and every direction
EdgeMaps ==
    {[h |-> ScanRowsMax, w |-> ScanColsMax, nz |-> [p \in S |-> 255]] :
        S \in SUBSET ((0 .. ScanRowsMax - 1) \X (0 .. ScanColsMax - 1))}

InitScan ==
    /\ pc = "findLinesPoints"
    /\ polarArgs = MainPolarArgs
    /\ IdleFrames /\ IdleLines /\ IdleArc /\ IdleStats
    /\ fault = "none"
    /\ \E e \in EdgeMaps, d \in Directions :
          scan = [ScanIdle EXCEPT !.edges = e, !.direction = d]

NextScan == FindLinesPointsStep

SpecScan == InitScan /\ [][NextScan]_vars

\* ExamineArc and the verdict over the radial positions findArcPoint can hand
\* over: the rows of the points of findNonZero, which come in row-major
\* order, taken around the two limits of the mean
StatValues == ((MIN_DIM - 2) .. (MIN_DIM + 2)) \cup ((MAX_DIM - 2) .. (MAX_DIM + 2))
RadialSeqs ==
    {q \in UNION {[1 .. n -> StatValues] : n \in 1 .. MaxPts} :
        \A i \in 1 .. Len(q) - 1 : q[i] <= q[i + 1]}

InitStats ==
    /\ pc = "classify"
    /\ polarArgs = MainPolarArgs
    /\ IdleFrames /\ IdleLines /\ IdleArc /\ IdleRest
    /\ pts_y \in RadialSeqs
    /\ stat = StatUnset
    /\ verdict = "none"
    /\ ret = "none"

NextStats == Classify

SpecStats == InitStats /\ [][NextStats]_vars

\* findArcPoint lines 162-219 over lines through the middle of the two
\* regions of the source, on a blank frame of full size
FrameShapes == {<<1500, 2000>>, <<1600, 900>>}
Anchor1 == <<1400, 725>>
Anchor2 == <<475, 1225>>
Diag == (VUnit * 7071) \div 10000
Tilts == (0 - TiltMax) .. TiltMax
FitDirections ==
    {<<sg * VUnit, t>> : sg \in {-1, 1}, t \in Tilts}
    \cup {<<t, sg * VUnit>> : sg \in {-1, 1}, t \in Tilts}
    \cup {<<sx * Diag, sy * Diag>> : sx \in {-1, 1}, sy \in {-1, 1}}
LinesAt(anchor) ==
    {<<d[1], d[2], anchor[1], anchor[2]>> : d \in FitDirections} \cup {NoLine}

InitSolve ==
    /\ pc = "solve"
    /\ polarArgs = MainPolarArgs
    /\ \E sh \in FrameShapes : img = Zeros(sh[1], sh[2]) /\ img2 = Zeros(sh[1], sh[2])
    /\ line1 \in LinesAt(Anchor1)
    /\ line2 \in LinesAt(Anchor2)
    /\ IdleArc /\ IdleStats /\ IdleRest

NextSolve ==
    \/ SolveIntersection
    \/ SelectCentre
    \/ ExtractRoi

SpecSolve == InitSolve /\ [][NextSolve]_vars

\* findArcPoint lines 221-253 over sub-images whose pixels all differ, for
\* each radius band and angular increment
Coded(h, w, base) ==
    [h |-> h, w |-> w,
     nz |-> [p \in (0 .. h - 1) \X (0 .. w - 1) |-> base - 16 * p[1] - p[2]]]
PolarRois ==
    {Coded(h, w, base) : h \in 0 .. PolarRoiMax, w \in 0 .. PolarRoiMax,
                         base \in {250, 140}}
PolarArgSet ==
    {[r |-> <<a, a + d>>, theta_inc |-> i] :
        a \in 0 .. RMinMax, d \in 1 .. RSpanMax, i \in {30, 45}}

InitPolar ==
    /\ pc = "polar"
    /\ polarArgs \in PolarArgSet
    /\ IdleFrames /\ IdleLines /\ IdleStats /\ IdleRest
    /\ arc = ArcUnset
    /\ roi \in PolarRois

NextPolar ==
    \/ Polar
    \/ FindArcEdge
    \/ Classify

SpecPolar == InitPolar /\ [][NextPolar]_vars

-----------------------------------------------------------------------------
(* Properties *)

Sgn(x) == IF x > 0 THEN 1 ELSE IF x < 0 THEN -1 ELSE 0

\* stages of a cycle that are reached only once the arc-centre solver has run
SolverRan == {"select", "extract", "polar", "edge", "classify", "deepL", "crashed"}

\* C1: once a line search of the cycle has found no edge points (its result
\* is the tuple -1,-1,-1,-1) the cycle stops there: the arc-centre solver is
\* never run on that cycle's lines.
C1_FailedSearchStopsCycle ==
    (line1 = NoLine \/ line2 = NoLine) => pc \notin SolverRan

\* C2: findArcPoint draws OK exactly when MIN_DIM < mean < MAX_DIM (both
\* strict) and the population standard deviation is below STD_ERROR, and
\* N_OK in every other case; n, sm and sq are the length, the sum and the
\* sum of squares of the radial positions, so the mean is sm/n and the
\* population variance (n*sq - sm*sm)/(n*n).
C2_PassIffWithinTolerance ==
    (pc = "deepL" /\ ret = "0") =>
        LET n  == Len(pts_y)
            sm == SumSeq(pts_y)
            sq == SumSeq([i \in 1 .. n |-> pts_y[i] * pts_y[i]])
        IN /\ n > 0
           /\ verdict = IF /\ MIN_DIM * n < sm
                           /\ sm < MAX_DIM * n
                           /\ 10000 * (n * sq - sm * sm)
                                < STD_ERROR_x100 * STD_ERROR_x100 * n * n
                        THEN "OK" ELSE "N_OK"

\* a cycle that classified a sequence of at least two positions as OK
C2_Witness ==
    pc = "deepL" /\ ret = "0" /\ verdict = "OK" /\ Len(pts_y) >= 2

\* C3: parallel lines (a singular intersection system) end the cycle with an
\* error outcome and never with an unhandled fault that ends the process.
C3_ParallelLinesHandled ==
    (pc \in SolverRan /\ Det(line1, line2) = 0) => (fault = "none" /\ ret = "-1")

\* C4: a line search leaves the frame it is given unchanged: after the first
\* search, and after the second, the working frame still equals the clear
\* frame that was grabbed, so the second search reads the pixels of the
\* clear frame.
C4_SearchLeavesFrameUnchanged ==
    pc \in {"line2", "solve"} =>
        /\ img = img2
        /\ searchingBox(img, Roi2, Direction2).line
             = searchingBox(img2, Roi2, Direction2).line

\* C5: in the scan of the direction-normalised edge map every row with a
\* nonzero pixel contributes exactly one point, at its leftmost nonzero
\* column (column 0 included), rows without one contribute none, and the
\* returned point set is None exactly when the edge map has no nonzero pixel.
C5_EveryEdgeRowContributes ==
    pc = "scanned" =>
        /\ \A r \in 0 .. scan.norm.h - 1 :
              FlatNonZero(scan.hits, r) =
                  IF FlatNonZero(scan.norm, r) = {} THEN {}
                  ELSE {Min(FlatNonZero(scan.norm, r))}
        /\ (scan.pts = NoPoints) <=> (DOMAIN scan.norm.nz = {})

\* C6: among the four candidate centres the solver always selects one, and
\* the one selected is at minimal distance from the centre of the frame.
C6_NearestAlwaysSelected ==
    arc.C # <<>> =>
        /\ arc.properArc \in 0 .. 3
        /\ \A j \in 1 .. 4 :
              Dist(arc.C[arc.properArc + 1], img.h, img.w) <= Dist(arc.C[j], img.h, img.w)

\* the quadrant of a centre c relative to the crossing point, <<0, _>> or
\* <<_, 0>> when c lies on an axis through it
Quadrant(c, xs, ys) == <<Sgn(c[1] - xs), Sgn(c[2] - ys)>>
InQuadrant(c, xs, ys) == c[1] # xs /\ c[2] # ys

\* C7: the rotation angle is one of 0, 90, 180, 270, and no candidate centre
\* lying in another quadrant than the chosen one would receive the angle the
\* chosen one received.
C7_RotationByQuadrant ==
    pc = "polar" =>
        /\ arc.ang \in {0, 90, 180, 270}
        /\ \A j \in 1 .. Len(arc.C) :
              ( /\ InQuadrant(arc.C[j], arc.xs, arc.ys)
                /\ InQuadrant(<<arc.xc, arc.yc>>, arc.xs, arc.ys)
                /\ Quadrant(arc.C[j], arc.xs, arc.ys)
                     # Quadrant(<<arc.xc, arc.yc>>, arc.xs, arc.ys) )
              => RotationAngle(arc.C[j][1], arc.C[j][2], arc.xs, arc.ys) # arc.ang

\* a centre below and to the left of the crossing point, rotated by 270
C7_Witness ==
    pc = "polar" /\ arc.C # <<>> /\ arc.xc < arc.xs /\ arc.yc > arc.ys /\ arc.ang = 270

\* C8: every cell [R - r_min, bin] of the raster holds the sample of the
\* sub-image at (sin(alpha)*R, cos(alpha)*R) from the origin (0,0) passed by
\* findArcPoint, and lies inside the raster.
C8_SampleAtRadiusR ==
    [][ (pc = "polar" /\ pc' = "edge") =>
          \A b \in PolarBins(THETA, polarArgs.theta_inc),
             R \in polarArgs.r[1] .. polarArgs.r[2] - 1 :
                /\ InBounds(roi', R - polarArgs.r[1], b)
                /\ Item(roi', R - polarArgs.r[1], b)
                     = Item(roi, IntMul(SinMilli(b * polarArgs.theta_inc), R),
                                 IntMul(CosMilli(b * polarArgs.theta_inc), R)) ]_vars

\* the points findLinesPoints returned
ScanPoints == {scan.pts[i] : i \in 1 .. Len(scan.pts)}

\* no nonzero pixel of the edge map lies in the scan line of point pt
\* strictly before pt when travelling along d (pt = <<x, y>>, d = <<dx, dy>>)
FirstAlong(pt, d) ==
    \A q \in DOMAIN scan.edges.nz :
        (IF d[2] = 0 THEN q[1] = pt[2] ELSE q[2] = pt[1])
        => (q[2] - pt[1]) * d[1] + (q[1] - pt[2]) * d[2] >= 0

\* the drawing handed to findNonZero has the shape of the edge map and every
\* returned point <<x, y>> is a nonzero pixel [y, x] of the edge map
C9_InverseTransforms ==
    /\ scan.drawing.h = scan.edges.h
    /\ scan.drawing.w = scan.edges.w
    /\ \A pt \in ScanPoints : <<pt[2], pt[1]>> \in DOMAIN scan.edges.nz

\* C9 as stated: the transforms before and after the scan are inverses (the
\* output has the input's shape and every point is a nonzero pixel of the
\* input), and every returned point is the first nonzero pixel of its scan
\* line met when travelling along the scan direction, for all four directions.
C9_FirstAlongDirection ==
    pc = "scanned" =>
        /\ C9_InverseTransforms
        /\ \A pt \in ScanPoints : FirstAlong(pt, scan.direction)

\* C9 amended: as above, but for the vertical directions (0,1) and (0,-1)
\* the returned point is the first nonzero pixel met when travelling AGAINST
\* the direction in pixel coordinates (y the row index, growing downwards):
\* the bottom-most pixel of the column for (0,1), the top-most for (0,-1).
C9_FirstAlongHorizontalAgainstVertical ==
    pc = "scanned" =>
        /\ C9_InverseTransforms
        /\ \A pt \in ScanPoints :
              FirstAlong(pt, IF scan.direction[2] = 0 THEN scan.direction
                             ELSE <<0, 0 - scan.direction[2]>>)

\* a scan along (0,1) of a column holding two edge pixels, one of them returned
C9_Witness ==
    /\ pc = "scanned"
    /\ scan.direction = <<0, 1>>
    /\ \E pt \in ScanPoints :
          Cardinality({q \in DOMAIN scan.edges.nz : q[2] = pt[1]}) >= 2

\* some sample polarTransform computes lies outside the image im
SomeSampleOutside(im, args) ==
    \E b \in PolarBins(THETA, args.theta_inc), R \in args.r[1] .. args.r[2] - 1 :
        LET c == SampleAt(args.r, R, b * args.theta_inc)
        IN c[1] < 0 \/ c[1] >= im.h \/ c[2] < 0 \/ c[2] >= im.w

\* C10: when a sample coordinate lies outside the sub-image, polarTransform
\* fails without producing a raster, findArcPoint returns -1, and no
\* statistics are computed and no OK / N_OK is drawn in that cycle.
C10_OutsideSampleFails ==
    /\ [][ (pc = "polar" /\ SomeSampleOutside(roi, polarArgs)) =>
             /\ roi' = roi
             /\ ret' = "-1"
             /\ pc' = "deepL" ]_vars
    /\ [](ret = "-1" => (verdict = "none" /\ stat = StatUnset))

\* a cycle ended by a sample outside a non-empty sub-image
C10_Witness ==
    /\ pc = "deepL"
    /\ ret = "-1"
    /\ roi \in PolarRois
    /\ roi.h > 0
    /\ roi.w > 0
    /\ SomeSampleOutside(roi, polarArgs)

=============================================================================
